---- MODULE Spec2Model ----
(***************************************************************************)
(* Campus path planner (routes/planner.py): graph loading, edge cost,      *)
(* adjacency construction, Dijkstra search and multi-leg route stitching.  *)
(*                                                                         *)
(* Conventions.  Python's None is the empty tuple and a present optional   *)
(* value x is <<x>>.  A dict is a function; dict.get is Get.  Node ids are *)
(* integers whose order stands for the string order of the ids ("N1" <     *)
(* "N2" ...); building codes are strings.  Times are integers: the graph   *)
(* files drawn below have lengths that the walking speed divides, so the   *)
(* float division of the code is exact on them.  An exception that leaves  *)
(* a function is the outcome <<"raise", name>>; one that leaves a request  *)
(* handler is the response of status 500 that Flask makes of it.           *)
(*                                                                         *)
(* A value computed once in the code and used several times is bound here  *)
(* through a one-element set (CHOOSE r \in {F(v) : v \in {e}} : TRUE is    *)
(* F(e) with e evaluated once), so that TLC does not evaluate e again at   *)
(* each use.                                                               *)
(***************************************************************************)
EXTENDS Integers, Sequences, FiniteSets, TLC

VARIABLES
    graphFile,        \* contents of the graph JSON file on disk
    graph_cache,      \* _graph_cache
    nodes_by_id,      \* _nodes_by_id
    buildings_by_id,  \* _buildings_by_id
    adjacency_cache,  \* _adjacency_cache
    request,          \* body of the POST /planner/route being served, or None
    response,         \* response of compute_route to that request, or None while it is pending
    locals,           \* compute_route's locals node paths and combined_path at its return
    start,            \* _dijkstra: start
    goal,             \* _dijkstra: goal
    queue,            \* _dijkstra: queue (heap contents)
    distances,        \* _dijkstra: distances
    previous,         \* _dijkstra: previous
    pops,             \* _dijkstra: passes of the loop made so far
    pc,               \* _dijkstra: "idle", "loop" (line 100), "after" (line 113), "returned"
    result,           \* _dijkstra: returned (cost, path), or None
    workers,          \* per request thread: its place in _load_graph and _get_adjacency
    loads,            \* times the graph file has been read (line 33), thread by thread
    builds            \* times _build_adjacency has been called (line 88), thread by thread

vars == <<graphFile, graph_cache, nodes_by_id, buildings_by_id, adjacency_cache,
          request, response, locals, start, goal, queue, distances, previous, pops, pc, result,
          workers, loads, builds>>

cacheVars == <<graph_cache, nodes_by_id, buildings_by_id, adjacency_cache>>
searchVars == <<start, goal, queue, distances, previous, pops, pc, result>>
loadVars == <<workers, loads, builds>>

----------------------------------------------------------------------------
(* Bounds *)

\* passes of the search loop after which a search counts as not returning
MaxPops == 12

\* edges of a graph file
MaxEdges == 3

\* building codes of a request
MaxCodes == 3

\* request threads that run the loader at the same time
MaxThreads == 2

\* reads of the graph file, or constructions of the adjacency, after which no
\* further request arrives
MaxAttempts == 2

----------------------------------------------------------------------------
(* Python values *)

None == <<>>
Some(x) == <<x>>
EmptyDict == <<>>

\* dict.get(k, default)
Get(d, k, default) == IF k \in DOMAIN d THEN d[k] ELSE default

\* d[k] = v on a dict
Put(d, k, v) == [x \in (DOMAIN d) \cup {k} |-> IF x = k THEN v ELSE d[x]]

\* flags.get(name) used as a condition
FlagSet(flags, name) == name \in DOMAIN flags /\ flags[name]

\* a / b of the code, on operands where it is exact
Quot(a, b) == IF b < 0 THEN 0 - (a \div (0 - b)) ELSE a \div b

\* an exception leaving a function: the outcome <<"raise", name>>, next to the
\* outcomes None and <<value>> of a function that returns
Raise(e) == <<"raise", e>>
Raised(r) == Len(r) = 2

----------------------------------------------------------------------------
(* _edge_travel_time, planner.py 40-59 *)

\* mutant: a flag counts when its key is present, whatever its value
EdgeTravelTime_FlagPresent(edge, settings, blocked_edge_ids) ==
    LET flags == Get(edge, "flags", EmptyDict)
        penalties == Get(settings, "penalties", EmptyDict)
        base_time_s == Quot(edge["length_m"], settings["walking_speed_mps"])
        penalty == Get(edge, "penalty_s", 0)
                   + (IF "stairs" \in DOMAIN flags THEN Get(penalties, "stairs_s", 0) ELSE 0)
                   + (IF "steep" \in DOMAIN flags THEN Get(penalties, "steep_s", 0) ELSE 0)
                   + (IF "covered" \in DOMAIN flags THEN Get(penalties, "covered_s", 0) ELSE 0)
    IN  IF FlagSet(flags, "blocked") THEN None
        ELSE IF "id" \in DOMAIN edge /\ edge["id"] \in blocked_edge_ids THEN None
        ELSE IF "length_m" \notin DOMAIN edge THEN Raise("KeyError")
        ELSE IF "walking_speed_mps" \notin DOMAIN settings THEN Raise("KeyError")
        ELSE IF settings["walking_speed_mps"] = 0 THEN Raise("ZeroDivisionError")
        ELSE Some(base_time_s + penalty)

\* mutant: a blocked edge kept, at a weight no route would choose
EdgeTravelTime_BlockedHeavy(edge, settings, blocked_edge_ids) ==
    LET flags == Get(edge, "flags", EmptyDict)
    IN  IF FlagSet(flags, "blocked") THEN Some(1000000)
        ELSE IF "id" \in DOMAIN edge /\ edge["id"] \in blocked_edge_ids THEN Some(1000000)
        ELSE IF "length_m" \notin DOMAIN edge THEN Raise("KeyError")
        ELSE IF "walking_speed_mps" \notin DOMAIN settings THEN Raise("KeyError")
        ELSE IF settings["walking_speed_mps"] = 0 THEN Raise("ZeroDivisionError")
        ELSE Some(Quot(edge["length_m"], settings["walking_speed_mps"])
                  + Get(edge, "penalty_s", 0))

EdgeTravelTime(edge, settings, blocked_edge_ids) ==
    LET flags == Get(edge, "flags", EmptyDict)
        penalties == Get(settings, "penalties", EmptyDict)
        base_time_s == Quot(edge["length_m"], settings["walking_speed_mps"])
        penalty == Get(edge, "penalty_s", 0)
                   + (IF FlagSet(flags, "stairs") THEN Get(penalties, "stairs_s", 0) ELSE 0)
                   + (IF FlagSet(flags, "steep") THEN Get(penalties, "steep_s", 0) ELSE 0)
                   + (IF FlagSet(flags, "covered") THEN Get(penalties, "covered_s", 0) ELSE 0)
    IN  IF FlagSet(flags, "blocked") THEN None
        ELSE IF "id" \in DOMAIN edge /\ edge["id"] \in blocked_edge_ids THEN None
        ELSE IF "length_m" \notin DOMAIN edge THEN Raise("KeyError")
        ELSE IF "walking_speed_mps" \notin DOMAIN settings THEN Raise("KeyError")
        ELSE IF settings["walking_speed_mps"] = 0 THEN Raise("ZeroDivisionError")
        ELSE Some(base_time_s + penalty)

----------------------------------------------------------------------------
(* _build_adjacency, planner.py 62-80 *)

SeqRange(s) == {s[i] : i \in DOMAIN s}

\* mutant: the entry is added at the edge's from node only
AddEdge_OneWay(adjacency, edge, settings, blocked_edge_ids) ==
    LET travel_time == EdgeTravelTime(edge, settings, blocked_edge_ids)
        from_node == Get(edge, "from", None)
        to_node == Get(edge, "to", None)
    IN  IF Raised(travel_time) THEN travel_time
        ELSE IF travel_time = None THEN Some(adjacency)
        ELSE IF from_node \notin DOMAIN adjacency \/ to_node \notin DOMAIN adjacency
             THEN Some(adjacency)
        ELSE Some([adjacency EXCEPT ![from_node] = Append(@, <<to_node, travel_time[1]>>)])

\* the body of the for loop over edges (lines 70-78) for one edge: the
\* adjacency after it, or the exception of line 70
AddEdge(adjacency, edge, settings, blocked_edge_ids) ==
    LET travel_time == EdgeTravelTime(edge, settings, blocked_edge_ids)
        from_node == Get(edge, "from", None)
        to_node == Get(edge, "to", None)
    IN  IF Raised(travel_time) THEN travel_time
        ELSE IF travel_time = None THEN Some(adjacency)
        ELSE IF from_node \notin DOMAIN adjacency \/ to_node \notin DOMAIN adjacency
             THEN Some(adjacency)
        ELSE LET a1 == [adjacency EXCEPT ![from_node] =
                            Append(@, <<to_node, travel_time[1]>>)]
             IN  Some([a1 EXCEPT ![to_node] = Append(@, <<from_node, travel_time[1]>>)])

RECURSIVE AddEdges(_, _, _, _, _)
AddEdges(adjacency, edges, i, settings, blocked_edge_ids) ==
    IF i > Len(edges) THEN Some(adjacency)
    ELSE CHOOSE r \in {IF Raised(next) THEN next
                       ELSE AddEdges(next[1], edges, i + 1, settings, blocked_edge_ids) :
                          next \in {AddEdge(adjacency, edges[i], settings, blocked_edge_ids)}} :
             TRUE

\* the adjacency as <<adjacency>>, or the exception that ends the call: the
\* KeyError of node["id"] (line 67) or an exception of _edge_travel_time
BuildAdjacency(graph) ==
    LET settings == Get(graph, "settings", EmptyDict)
        blocked_edge_ids == SeqRange(Get(Get(graph, "overrides", EmptyDict),
                                         "blockedEdgeIds", <<>>))
        nodes == Get(graph, "nodes", <<>>)
    IN  IF \E i \in DOMAIN nodes : "id" \notin DOMAIN nodes[i] THEN Raise("KeyError")
        ELSE CHOOSE r \in {AddEdges(empty, Get(graph, "edges", <<>>), 1, settings,
                                    blocked_edge_ids) :
                              empty \in {[id \in {nodes[i].id : i \in DOMAIN nodes} |-> <<>>]}} :
                 TRUE

----------------------------------------------------------------------------
(* _dijkstra, planner.py 92-123 *)

\* order of the heap entries: tuples (distance, node) compared lexicographically
TupleLess(a, b) == a[1] < b[1] \/ (a[1] = b[1] /\ a[2] < b[2])

\* mutant: the queue served first-in first-out instead of as a heap
HeapMinIndex_Fifo(q) == 1

\* heapq.heappop returns the smallest entry; equal entries are indistinguishable
HeapMinIndex(q) ==
    CHOOSE i \in DOMAIN q :
        /\ \A j \in DOMAIN q : ~TupleLess(q[j], q[i])
        /\ \A j \in DOMAIN q : (j < i) => q[j] # q[i]

RemoveAt(q, i) == [j \in 1..(Len(q) - 1) |-> IF j < i THEN q[j] ELSE q[j + 1]]

\* mutant: start given no predecessor entry
DijkstraInit_NoPrevious(s) ==
    [queue |-> << <<0, s>> >>, distances |-> (s :> 0), previous |-> EmptyDict,
     running |-> TRUE]

\* lines 96-98
DijkstraInit(s) ==
    [queue |-> << <<0, s>> >>, distances |-> (s :> 0), previous |-> (s :> None),
     running |-> TRUE]

\* lines 107-111 for one (neighbor, weight)
\* mutant: every offered distance replaces the recorded one
RelaxOne_Unconditional(st, node, current_distance, entry) ==
    LET neighbor == entry[1]
        distance == current_distance + entry[2]
    IN  [st EXCEPT !.distances = Put(@, neighbor, distance),
                   !.previous = Put(@, neighbor, Some(node)),
                   !.queue = IF neighbor \notin DOMAIN st.distances
                                \/ distance < st.distances[neighbor]
                             THEN Append(@, <<distance, neighbor>>) ELSE @]

\* mutant: an equal distance replaces the recorded one
RelaxOne_OrEqual(st, node, current_distance, entry) ==
    LET neighbor == entry[1]
        distance == current_distance + entry[2]
    IN  IF neighbor \notin DOMAIN st.distances \/ distance <= st.distances[neighbor]
        THEN [st EXCEPT !.distances = Put(@, neighbor, distance),
                        !.previous = Put(@, neighbor, Some(node)),
                        !.queue = Append(@, <<distance, neighbor>>)]
        ELSE st

\* mutant: a recorded distance is never replaced
RelaxOne_FirstSeen(st, node, current_distance, entry) ==
    LET neighbor == entry[1]
        distance == current_distance + entry[2]
    IN  IF neighbor \notin DOMAIN st.distances
        THEN [st EXCEPT !.distances = Put(@, neighbor, distance),
                        !.previous = Put(@, neighbor, Some(node)),
                        !.queue = Append(@, <<distance, neighbor>>)]
        ELSE st

RelaxOne(st, node, current_distance, entry) ==
    LET neighbor == entry[1]
        distance == current_distance + entry[2]
    IN  IF neighbor \notin DOMAIN st.distances \/ distance < st.distances[neighbor]
        THEN [st EXCEPT !.distances = Put(@, neighbor, distance),
                        !.previous = Put(@, neighbor, Some(node)),
                        !.queue = Append(@, <<distance, neighbor>>)]
        ELSE st

\* the for loop of line 106
RECURSIVE Relax(_, _, _, _, _)
Relax(st, node, current_distance, neighbors, i) ==
    IF i > Len(neighbors) THEN st
    ELSE CHOOSE r \in {Relax(next, node, current_distance, neighbors, i + 1) :
                          next \in {RelaxOne(st, node, current_distance, neighbors[i])}} :
             TRUE

\* one evaluation of the while condition and, if it holds, one pass of the body
\* (lines 100-111); running = FALSE once the loop is left
DijkstraIter(st, g, adjacency) ==
    IF st.queue = <<>> THEN [st EXCEPT !.running = FALSE]
    ELSE LET i == HeapMinIndex(st.queue)
             current_distance == st.queue[i][1]
             node == st.queue[i][2]
             popped == [st EXCEPT !.queue = RemoveAt(@, i)]
         IN  IF node = g THEN [popped EXCEPT !.running = FALSE]
             ELSE IF node \in DOMAIN st.distances /\ current_distance > st.distances[node]
                  THEN popped
             ELSE Relax(popped, node, current_distance, Get(adjacency, node, <<>>), 1)

\* lines 116-121: follow previous from goal; None when the chain never ends
\* (a chain longer than the number of keys repeats a node)
RECURSIVE PathBack(_, _, _)

\* mutant: the path left in goal-to-start order (no reverse)
RECURSIVE PathBack_NoReverse(_, _, _)
PathBack_NoReverse(prev, node, acc) ==
    IF node = None THEN Some(acc)
    ELSE IF Len(acc) > Cardinality(DOMAIN prev) THEN None
    ELSE CHOOSE r \in {PathBack_NoReverse(prev, next[1], next[2]) :
                          next \in {<<Get(prev, node[1], None), acc \o <<node[1]>> >>}} :
             TRUE

PathBack(prev, node, acc) ==
    IF node = None THEN Some(acc)
    ELSE IF Len(acc) > Cardinality(DOMAIN prev) THEN None
    ELSE CHOOSE r \in {PathBack(prev, next[1], next[2]) :
                          next \in {<<Get(prev, node[1], None), <<node[1]>> \o acc>>}} :
             TRUE

\* mutant: the test of line 113 left out
DijkstraReturn_NoTest(st, g) ==
    LET path == PathBack(st.previous, Some(g), <<>>)
    IN  IF path = None THEN [cost |-> None, path |-> <<>>, hang |-> TRUE]
        ELSE [cost |-> IF g \in DOMAIN st.distances THEN Some(st.distances[g]) ELSE None,
              path |-> path[1], hang |-> FALSE]

\* lines 113-123; [hang |-> TRUE] when path reconstruction does not end
DijkstraReturn(st, g) ==
    IF g \notin DOMAIN st.previous THEN [cost |-> None, path |-> <<>>, hang |-> FALSE]
    ELSE LET path == PathBack(st.previous, Some(g), <<>>)
         IN  IF path = None THEN [cost |-> None, path |-> <<>>, hang |-> TRUE]
             ELSE [cost |-> IF g \in DOMAIN st.distances THEN Some(st.distances[g]) ELSE None,
                   path |-> path[1], hang |-> FALSE]

\* the whole call; a search still running after MaxPops passes of the loop is
\* reported as not returning
RECURSIVE DijkstraLoop(_, _, _, _)
DijkstraLoop(st, g, adjacency, fuel) ==
    IF ~st.running THEN DijkstraReturn(st, g)
    ELSE IF fuel = 0 THEN [cost |-> None, path |-> <<>>, hang |-> TRUE]
    ELSE CHOOSE r \in {DijkstraLoop(next, g, adjacency, fuel - 1) :
                          next \in {DijkstraIter(st, g, adjacency)}} :
             TRUE

Dijkstra(s, g, adjacency) == DijkstraLoop(DijkstraInit(s), g, adjacency, MaxPops + 1)

----------------------------------------------------------------------------
(* _load_graph and _get_adjacency, planner.py 29-37 and 83-89 *)

\* {item["id"]: item for item in items}: a later item replaces an earlier one;
\* <<dict>>, or the KeyError of an item without "id"
RECURSIVE IndexById(_, _, _)
IndexById(items, i, acc) ==
    IF i > Len(items) THEN Some(acc)
    ELSE IF "id" \notin DOMAIN items[i] THEN Raise("KeyError")
    ELSE CHOOSE r \in {IndexById(items, i + 1, next) :
                          next \in {Put(acc, items[i]["id"], items[i])}} :
             TRUE

\* a graph file that cannot be opened or parsed is the record of the exception
\* that open or json.load raises on it
Unreadable(file) == "io_error" \in DOMAIN file

\* mutant: the file is read at every call
LoadGraph_Always(caches, file) ==
    IF Unreadable(file)
    THEN [caches EXCEPT !.raised = Some(file.io_error), !.opens = @ + 1]
    ELSE LET nodes == IndexById(Get(file, "nodes", <<>>), 1, EmptyDict)
             buildings == IndexById(Get(file, "buildings", <<>>), 1, EmptyDict)
         IN  IF Raised(nodes)
             THEN [caches EXCEPT !.graph = Some(file), !.raised = Some(nodes[2]),
                                 !.opens = @ + 1]
             ELSE IF Raised(buildings)
             THEN [caches EXCEPT !.graph = Some(file), !.nodes = nodes,
                                 !.raised = Some(buildings[2]), !.opens = @ + 1]
             ELSE [caches EXCEPT !.graph = Some(file), !.nodes = nodes,
                                 !.buildings = buildings, !.opens = @ + 1]

\* the caches as a record [graph, nodes, buildings, adjacency], each None or
\* <<value>>, with the exception that ended the call (raised), if one did, and
\* the numbers of times the file was opened (opens) and _build_adjacency called
\* (builds); the assignments made before the exception stay
LoadGraph(caches, file) ==
    IF caches.graph = None
    THEN IF Unreadable(file)
         THEN [caches EXCEPT !.raised = Some(file.io_error), !.opens = @ + 1]
         ELSE
         LET nodes == IndexById(Get(file, "nodes", <<>>), 1, EmptyDict)
             buildings == IndexById(Get(file, "buildings", <<>>), 1, EmptyDict)
         IN  IF Raised(nodes)
             THEN [caches EXCEPT !.graph = Some(file), !.raised = Some(nodes[2]),
                                 !.opens = @ + 1]
             ELSE IF Raised(buildings)
             THEN [caches EXCEPT !.graph = Some(file), !.nodes = nodes,
                                 !.raised = Some(buildings[2]), !.opens = @ + 1]
             ELSE [caches EXCEPT !.graph = Some(file), !.nodes = nodes,
                                 !.buildings = buildings, !.opens = @ + 1]
    ELSE caches

GetAdjacency(caches, file) ==
    IF caches.adjacency = None
    THEN CHOOSE r \in
           { IF loaded.raised # None THEN loaded
             ELSE CHOOSE b \in
                    { IF Raised(built)
                      THEN [loaded EXCEPT !.raised = Some(built[2]), !.builds = @ + 1]
                      ELSE [loaded EXCEPT !.adjacency = built, !.builds = @ + 1] :
                        built \in {BuildAdjacency(loaded.graph[1])} } : TRUE :
               loaded \in {LoadGraph(caches, file)} } : TRUE
    ELSE caches

----------------------------------------------------------------------------
(* _shortest_path_between_buildings, planner.py 126-145 *)

\* mutant: the first pair with a path is kept, later pairs are not compared
TryPair_First(best, start_node, end_node, adjacency) ==
    IF best.hang THEN best
    ELSE CHOOSE r \in
           { IF found.hang THEN [best EXCEPT !.hang = TRUE]
             ELSE IF found.cost = None \/ found.path = <<>> THEN best
             ELSE IF best.time = None
                  THEN [time |-> found.cost, path |-> found.path, hang |-> FALSE]
             ELSE best :
               found \in {Dijkstra(start_node, end_node, adjacency)} } :
           TRUE

\* lines 138-143 for one (start_node, end_node); best is [time, path, hang]
TryPair(best, start_node, end_node, adjacency) ==
    IF best.hang THEN best
    ELSE CHOOSE r \in
           { IF found.hang THEN [best EXCEPT !.hang = TRUE]
             ELSE IF found.cost = None \/ found.path = <<>> THEN best
             ELSE IF best.time = None \/ found.cost[1] < best.time[1]
                  THEN [time |-> found.cost, path |-> found.path, hang |-> FALSE]
             ELSE best :
               found \in {Dijkstra(start_node, end_node, adjacency)} } :
           TRUE

\* the two nested loops of lines 136-137, pair k of the cross product in loop order
RECURSIVE TryPairs(_, _, _, _, _)
TryPairs(best, starts, ends, k, adjacency) ==
    IF k > Len(starts) * Len(ends) THEN best
    ELSE CHOOSE r \in {TryPairs(next, starts, ends, k + 1, adjacency) :
                          next \in {TryPair(best, starts[((k - 1) \div Len(ends)) + 1],
                                            ends[((k - 1) % Len(ends)) + 1], adjacency)}} :
             TRUE

\* mutant: a building without entrances is entered at node 1
ShortestPathBetweenBuildings_DefaultEntrance(building_start, building_end, adjacency, by_id) ==
    LET index == IF by_id = None THEN EmptyDict ELSE by_id[1]
        building_a == Get(index, building_start, EmptyDict)
        building_b == Get(index, building_end, EmptyDict)
        Entrances(b) == IF Get(b, "entranceNodeIds", <<>>) = <<>> THEN <<1>>
                        ELSE b["entranceNodeIds"]
    IN  TryPairs([time |-> None, path |-> <<>>, hang |-> FALSE],
                 Entrances(building_a), Entrances(building_b), 1, adjacency)

ShortestPathBetweenBuildings(building_start, building_end, adjacency, by_id) ==
    LET index == IF by_id = None THEN EmptyDict ELSE by_id[1]
        building_a == Get(index, building_start, EmptyDict)
        building_b == Get(index, building_end, EmptyDict)
    IN  TryPairs([time |-> None, path |-> <<>>, hang |-> FALSE],
                 Get(building_a, "entranceNodeIds", <<>>),
                 Get(building_b, "entranceNodeIds", <<>>), 1, adjacency)

----------------------------------------------------------------------------
(* compute_route, planner.py 162-327 *)

\* JSON values of a request body.  An object is the function from its keys (no
\* object drawn here has a key "type"); any other value is a record with its
\* type.  A list of strings holds the strings; a list with other elements holds
\* the JSON text of each element (never a building code) and, in elem_types, the
\* Python type of each.
JList(items) == [type |-> "list", items |-> items]
JString(value) == [type |-> "string", value |-> value]
JNumber(value) == [type |-> "number", value |-> value]
JNull == [type |-> "null"]
JListOf(items, elem_types) == [type |-> "list", items |-> items, elem_types |-> elem_types]

IsDict(v) == "type" \notin DOMAIN v
IsList(v) == ~IsDict(v) /\ v.type = "list"
IsStr(v) == ~IsDict(v) /\ v.type = "string"

ElemType(list, i) == IF "elem_types" \in DOMAIN list THEN list.elem_types[i] ELSE "str"

\* bool(value) of a JSON value
Truthy(v) ==
    IF IsDict(v) THEN v # EmptyDict
    ELSE IF v.type = "list" THEN v.items # <<>>
    ELSE IF v.type = "string" THEN v.value # ""
    ELSE IF v.type = "number" THEN v.value # 0
    ELSE FALSE

\* an exception that leaves compute_route: Flask answers 500
Fault(e) == [status |-> 500, raised |-> e]

\* _localized_strings, lines 174-227: the default of the outer get is evaluated
\* first, so lang.split raises on a language that is no string; which table is
\* chosen is not kept
LocalizedStrings(lang) == IF IsStr(lang) THEN Some("translations") ELSE Raise("AttributeError")

\* the error responses, named as the design names them; the texts are those of
\* lines 187, 241, 248 and 260
InvalidRequest == "Request must include a list of building codes."
UnknownBuilding == "Unknown building codes:"
InsufficientEndpoints == "Provide at least two building codes to plan a route."
NoPathFound == "No available path between"

RECURSIVE SumSeq(_, _)
SumSeq(xs, i) == IF i > Len(xs) THEN 0 ELSE xs[i] + SumSeq(xs, i + 1)

\* sum / len of lines 280-281, kept as the quotient's two terms
Mean(xs) == [sum |-> SumSeq(xs, 1), n |-> Len(xs)]

\* lines 273-277
RECURSIVE Polyline(_, _, _)
Polyline(node_path, i, by_id) ==
    IF i > Len(node_path) THEN <<>>
    ELSE (IF node_path[i] \in DOMAIN (IF by_id = None THEN EmptyDict ELSE by_id[1])
          THEN << [x |-> by_id[1][node_path[i]]["x"], y |-> by_id[1][node_path[i]]["y"]] >>
          ELSE <<>>) \o Polyline(node_path, i + 1, by_id)

\* lines 279-283
LabelPosition(polyline) ==
    IF polyline # <<>>
    THEN [x |-> Mean([i \in DOMAIN polyline |-> polyline[i].x]),
          y |-> Mean([i \in DOMAIN polyline |-> polyline[i].y])]
    ELSE [x |-> [sum |-> 0, n |-> 1], y |-> [sum |-> 0, n |-> 1]]

\* mutant: every leg's path appended whole
Combine_NoElide(combined_path, node_path) == combined_path \o node_path

\* lines 268-271
Combine(combined_path, node_path) ==
    IF combined_path # <<>> /\ node_path # <<>>
       /\ combined_path[Len(combined_path)] = node_path[1]
    THEN combined_path \o Tail(node_path)
    ELSE combined_path \o node_path

\* mutant: the leg's time replaces the total instead of being added to it
AddLeg_Overwrite(acc, start_code, end_code, found, by_id) ==
    CHOOSE a \in
      { [acc EXCEPT
           !.total_time_s = found.time[1],
           !.combined_path = Combine(@, found.path),
           !.node_paths = Append(@, found.path),
           !.legs = Append(@, [from_building |-> start_code,
                               to_building |-> end_code,
                               time_s |-> found.time[1],
                               polyline |-> polyline,
                               label_position |-> LabelPosition(polyline)])] :
          polyline \in {Polyline(found.path, 1, by_id)} } :
      TRUE

\* lines 266-293: a found leg is added to the locals
AddLeg(acc, start_code, end_code, found, by_id) ==
    CHOOSE a \in
      { [acc EXCEPT
           !.total_time_s = @ + found.time[1],
           !.combined_path = Combine(@, found.path),
           !.node_paths = Append(@, found.path),
           !.legs = Append(@, [from_building |-> start_code,
                               to_building |-> end_code,
                               time_s |-> found.time[1],
                               polyline |-> polyline,
                               label_position |-> LabelPosition(polyline)])] :
          polyline \in {Polyline(found.path, 1, by_id)} } :
      TRUE

\* mutant: a leg without a path is left out and the loop goes on
LegStep_SkipFailed(acc, start_code, end_code, caches) ==
    IF acc.hang \/ acc.failed # None THEN acc
    ELSE CHOOSE r \in
           { IF found.hang THEN [acc EXCEPT !.hang = TRUE]
             ELSE IF found.time = None \/ found.path = <<>> THEN acc
             ELSE AddLeg(acc, start_code, end_code, found, caches.nodes) :
               found \in {ShortestPathBetweenBuildings(start_code, end_code,
                                                       caches.adjacency[1],
                                                       caches.buildings)} } :
           TRUE

\* one pass of the loop of line 254 for the pair (start_code, end_code); acc holds
\* the locals legs, total_time_s, combined_path, the node paths of the legs, the
\* pair a 400 was returned for (failed) and whether a search did not return (hang)
LegStep(acc, start_code, end_code, caches) ==
    IF acc.hang \/ acc.failed # None THEN acc
    ELSE CHOOSE r \in
           { IF found.hang THEN [acc EXCEPT !.hang = TRUE]
             ELSE IF found.time = None \/ found.path = <<>>
                  THEN [acc EXCEPT !.failed = Some(<<start_code, end_code>>)]
             ELSE AddLeg(acc, start_code, end_code, found, caches.nodes) :
               found \in {ShortestPathBetweenBuildings(start_code, end_code,
                                                       caches.adjacency[1],
                                                       caches.buildings)} } :
           TRUE

\* the loop over zip(building_codes, building_codes[1:])
RECURSIVE Legs(_, _, _, _)
Legs(acc, codes, i, caches) ==
    IF i >= Len(codes) THEN acc
    ELSE CHOOSE r \in {Legs(next, codes, i + 1, caches) :
                          next \in {LegStep(acc, codes[i], codes[i + 1], caches)}} :
             TRUE

\* mutant: only the first absent code is reported
InvalidCodes_First(codes, i, index) ==
    IF \E k \in DOMAIN codes : codes[k] \notin DOMAIN index
    THEN <<codes[CHOOSE k \in DOMAIN codes :
                    /\ codes[k] \notin DOMAIN index
                    /\ \A j \in 1..(k - 1) : codes[j] \in DOMAIN index]>>
    ELSE <<>>

\* line 236
RECURSIVE InvalidCodes(_, _, _)
InvalidCodes(codes, i, index) ==
    IF i > Len(codes) THEN <<>>
    ELSE (IF codes[i] \notin DOMAIN index THEN <<codes[i]>> ELSE <<>>)
         \o InvalidCodes(codes, i + 1, index)

NoLocals == [node_paths |-> <<>>, combined_path |-> <<>>]

\* mutant: the length of the list is tested before its codes are looked up
Validate_LengthFirst(building_codes, index) ==
    IF ~IsList(building_codes) \/ ~Truthy(building_codes)
    THEN Some([status |-> 400, error |-> InvalidRequest])
    ELSE IF Len(building_codes.items) < 2
    THEN Some([status |-> 400, error |-> InsufficientEndpoints])
    ELSE IF \E i \in DOMAIN building_codes.items :
                ElemType(building_codes, i) \in {"list", "dict"}
    THEN Some(Fault("TypeError"))
    ELSE IF InvalidCodes(building_codes.items, 1, index) # <<>>
    THEN Some([status |-> 400, error |-> UnknownBuilding,
               codes |-> InvalidCodes(building_codes.items, 1, index)])
    ELSE None

\* the checks of lines 229-248: the 400 response of the first that fails, or
\* None; the membership test of line 236 raises on an element that cannot be
\* hashed
Validate(building_codes, index) ==
    IF ~IsList(building_codes) \/ ~Truthy(building_codes)
    THEN Some([status |-> 400, error |-> InvalidRequest])
    ELSE IF \E i \in DOMAIN building_codes.items :
                ElemType(building_codes, i) \in {"list", "dict"}
    THEN Some(Fault("TypeError"))
    ELSE IF InvalidCodes(building_codes.items, 1, index) # <<>>
    THEN Some([status |-> 400, error |-> UnknownBuilding,
               codes |-> InvalidCodes(building_codes.items, 1, index)])
    ELSE IF Len(building_codes.items) < 2
    THEN Some([status |-> 400, error |-> InsufficientEndpoints])
    ELSE None

\* what becomes of a response that compute_route builds with the localized
\* strings (every one but that of line 248): _localized_strings raises first,
\* then the join of line 241 on a code that is no string
Localize(r, target_language, building_codes) ==
    IF r.status = 0 \/ r.status = 500 THEN r
    ELSE IF r.status = 400 /\ r.error = InsufficientEndpoints THEN r
    ELSE IF Raised(LocalizedStrings(target_language)) THEN Fault("AttributeError")
    ELSE IF r.status = 400 /\ r.error = UnknownBuilding
            /\ \E i \in DOMAIN building_codes.items : ElemType(building_codes, i) # "str"
    THEN Fault("TypeError")
    ELSE r

\* lines 168-327 with the caches loaded, for the body that get_json returns
\* (JNull when it cannot be parsed): the response (status 0: the handler does
\* not return; status 500: it raises) and the locals it ended with
Respond(body, caches) ==
    LET data == IF Truthy(body) THEN body ELSE EmptyDict
        building_codes == Get(data, "buildings", JList(<<>>))
        lang == Get(data, "target_language", JString(""))
        target_language == IF Truthy(lang) THEN lang ELSE JString("")
        index == IF caches.buildings = None THEN EmptyDict ELSE caches.buildings[1]
        image == Get(caches.graph[1], "image", EmptyDict)
        reply(r, l) == [caches |-> caches,
                        response |-> Localize(r, target_language, building_codes),
                        locals |-> l]
    IN  IF ~IsDict(data)
        THEN [caches |-> caches, response |-> Fault("AttributeError"), locals |-> NoLocals]
        ELSE IF Validate(building_codes, index) # None
        THEN reply(Validate(building_codes, index)[1], NoLocals)
        ELSE CHOOSE r \in
               { IF done.hang
                 THEN reply([status |-> 0], NoLocals)
                 ELSE IF done.failed # None
                 THEN reply([status |-> 400, error |-> NoPathFound,
                             from_code |-> done.failed[1][1], to_code |-> done.failed[1][2]],
                            [node_paths |-> done.node_paths,
                             combined_path |-> done.combined_path])
                 ELSE reply([status |-> 200,
                             image |-> [width_px |-> Get(image, "width_px", None),
                                        height_px |-> Get(image, "height_px", None)],
                             legs |-> done.legs,
                             total_time_s |-> done.total_time_s],
                            [node_paths |-> done.node_paths,
                             combined_path |-> done.combined_path]) :
                   done \in {Legs([legs |-> <<>>, total_time_s |-> 0, combined_path |-> <<>>,
                                   node_paths |-> <<>>, failed |-> None, hang |-> FALSE],
                                  building_codes.items, 1, caches)} } :
               TRUE

\* the handler, lines 165-327: the caches after it, the response and the locals;
\* an exception of the two loader calls leaves the handler
ComputeRoute(data, caches0, file) ==
    CHOOSE r \in { IF caches.raised # None
                   THEN [caches |-> caches, response |-> Fault(caches.raised[1]),
                         locals |-> NoLocals]
                   ELSE Respond(data, caches) :
                     caches \in {GetAdjacency(LoadGraph(caches0, file), file)}} : TRUE

----------------------------------------------------------------------------
(* Request threads *)

Threads == 1..MaxThreads

\* a thread at pc; ret says where its call of _load_graph returns to (line 165
\* of compute_route or line 87 of _get_adjacency); graph is what the call
\* returned; body is the JSON the request came with and response its answer
Worker(at, ret, graph) ==
    [pc |-> at, ret |-> ret, graph |-> graph, body |-> None, response |-> None]

IdleWorkers == [t \in Threads |-> Worker("idle", "none", None)]

----------------------------------------------------------------------------
(* Graph files *)

NodeList ==
    << [id |-> 1, x |-> 0, y |-> 0], [id |-> 2, x |-> 10, y |-> 0],
       [id |-> 3, x |-> 20, y |-> 0], [id |-> 4, x |-> 30, y |-> 0] >>

\* an id that no node of the file has
UnknownNode == 9

Edge(id, from, to, length_m) ==
    [id |-> id, from |-> from, to |-> to, length_m |-> length_m]

Settings(speed) ==
    [walking_speed_mps |-> speed,
     penalties |-> [stairs_s |-> 14, steep_s |-> 8, covered_s |-> 2]]

Speeds == {1, 2}

EdgePool ==
    << Edge("e12", 1, 2, 10),
       Edge("e23", 2, 3, 10),
       Edge("e34", 3, 4, 10),
       Edge("e13", 1, 3, 30),
       Edge("e24", 2, 4, 0),
       Edge("e12b", 2, 1, 4) @@ [flags |-> [covered |-> TRUE, stairs |-> FALSE]],
       Edge("e11", 1, 1, 0),
       Edge("e14", 1, 4, 20) @@ [flags |-> [stairs |-> TRUE]],
       Edge("e39", 3, UnknownNode, 10),
       Edge("e43", 4, 3, 10) @@ [penalty_s |-> 0 - 30],
       Edge("e23x", 2, 3, 2) @@ [flags |-> [blocked |-> TRUE]],
       Edge("e34s", 3, 4, 6) @@ [flags |-> [stairs |-> TRUE, steep |-> TRUE, covered |-> TRUE],
                                 penalty_s |-> 5] >>

\* the edges of the pool picked by a set of indices, in pool order
RECURSIVE PickEdges(_, _, _)
PickEdges(pool, picked, i) ==
    IF i > Len(pool) THEN <<>>
    ELSE (IF i \in picked THEN <<pool[i]>> ELSE <<>>) \o PickEdges(pool, picked, i + 1)

GraphFile(edges, buildings, blockedEdgeIds, speed) ==
    [nodes |-> NodeList, edges |-> edges, buildings |-> buildings,
     settings |-> Settings(speed), overrides |-> [blockedEdgeIds |-> blockedEdgeIds],
     image |-> [width_px |-> 40, height_px |-> 10]]

\* the line 1-2-3-4 at 10 m a step, X at 1, Z at 3, Y at 4
LineGraph ==
    GraphFile(<<EdgePool[1], EdgePool[2], EdgePool[3]>>,
              << [id |-> "X", name |-> "X", entranceNodeIds |-> <<1>>],
                 [id |-> "Y", name |-> "Y", entranceNodeIds |-> <<4>>],
                 [id |-> "Z", name |-> "Z", entranceNodeIds |-> <<3>>] >>, <<>>, 1)

SearchGraphs ==
    { GraphFile(PickEdges(EdgePool, picked, 1), <<>>, ovr, speed) :
        picked \in {S \in SUBSET DOMAIN EdgePool : Cardinality(S) <= MaxEdges},
        ovr \in {<<>>, <<"e13">>}, speed \in Speeds }

SearchNodes == {1, 2, 3, 4, UnknownNode}

----------------------------------------------------------------------------
(* A search, one pass of the loop at a time *)

SearchState == [queue |-> queue, distances |-> distances, previous |-> previous,
                running |-> pc = "loop"]

InitSearch ==
    /\ graphFile \in SearchGraphs
    /\ graph_cache = Some(graphFile)
    /\ nodes_by_id = None
    /\ buildings_by_id = None
    /\ adjacency_cache = BuildAdjacency(graphFile)
    /\ request = None
    /\ response = None
    /\ locals = None
    /\ workers = IdleWorkers /\ loads = 0 /\ builds = 0
    /\ start \in SearchNodes
    /\ goal \in SearchNodes
    /\ queue = DijkstraInit(start).queue
    /\ distances = DijkstraInit(start).distances
    /\ previous = DijkstraInit(start).previous
    /\ pops = 0
    /\ pc = "loop"
    /\ result = None

\* lines 100-111, one pass
SearchIter ==
    /\ pc = "loop"
    /\ pops < MaxPops
    /\ \E st \in {DijkstraIter(SearchState, goal, adjacency_cache[1])} :
           /\ queue' = st.queue
           /\ distances' = st.distances
           /\ previous' = st.previous
           /\ pc' = IF st.running THEN "loop" ELSE "after"
    /\ pops' = pops + 1
    /\ UNCHANGED <<graphFile, loadVars, cacheVars, request, response, locals, start, goal, result>>

\* lines 113-123
SearchReturn ==
    /\ pc = "after"
    /\ \E r \in {DijkstraReturn(SearchState, goal)} :
           /\ ~r.hang
           /\ result' = Some(r)
    /\ pc' = "returned"
    /\ UNCHANGED <<graphFile, loadVars, cacheVars, request, response, locals, start, goal,
                   queue, distances, previous, pops>>

NextSearch == SearchIter \/ SearchReturn

SpecSearch == InitSearch /\ [][NextSearch]_vars

\* indices of the pool edges of the searches whose end is checked: two of
\* weight zero, one of them a self-loop, and parallel and longer ways
TerminationPool == {1, 2, 4, 5, 6, 7}

TerminationGraphs ==
    { GraphFile(PickEdges(EdgePool, picked, 1), <<>>, <<>>, 1) :
        picked \in {S \in SUBSET TerminationPool : Cardinality(S) <= MaxEdges} }

InitTermination == InitSearch /\ graphFile \in TerminationGraphs

\* the call runs on: a loop pass or a return that can be taken is taken
SpecSearchFair == InitTermination /\ [][NextSearch]_vars /\ WF_vars(NextSearch)

----------------------------------------------------------------------------
(* The planner serving requests, one whole handler at a time *)

Building(id, entranceNodeIds) ==
    [id |-> id, name |-> id, entranceNodeIds |-> entranceNodeIds]

BuildingLists ==
    { << Building("X", <<1>>), Building("Y", <<4>>), Building("Z", <<3>>) >>,
      << Building("X", <<1, 2>>), Building("Y", <<3, 4>>), Building("Z", <<>>) >>,
      << Building("X", <<2, 1>>), Building("Y", <<4>>), Building("Z", <<UnknownNode, 3>>) >>,
      << Building("X", <<1>>), [id |-> "Y", name |-> "Y"], Building("Z", <<3>>) >> }

\* indices of the pool edges that the served graph files are made of
RoutePool == {1, 2, 3, 4, 8, 10}

\* the line 1-2-3-4, alone and with a second way from 1
LineSets == {{1, 2, 3}, {1, 2, 3, 4}, {1, 2, 3, 8}}

BlockLists == {<<>>, <<"e23">>}

\* every small choice of edges under one building list and no block list, and
\* the line graphs under every building list and block list
GraphFiles ==
    { GraphFile(PickEdges(EdgePool, picked, 1),
                << Building("X", <<1>>), Building("Y", <<4>>), Building("Z", <<3>>) >>,
                <<>>, 1) :
        picked \in {S \in SUBSET RoutePool : Cardinality(S) <= MaxEdges} }
    \cup
    { GraphFile(PickEdges(EdgePool, picked, 1), buildings, ovr, 1) :
        picked \in LineSets, buildings \in BuildingLists, ovr \in BlockLists }

Codes == {"X", "Y", "Z", "ZZZ"}

RECURSIVE SeqsUpTo(_, _)
SeqsUpTo(S, n) ==
    IF n = 0 THEN {<<>>}
    ELSE LET shorter == SeqsUpTo(S, n - 1)
         IN  shorter \cup {Append(q, c) : q \in {r \in shorter : Len(r) = n - 1}, c \in S}

\* request bodies: no "buildings" key, a "buildings" that is no list, and lists of codes
Bodies ==
    {EmptyDict, [buildings |-> JString("X,Y")]}
    \cup {[buildings |-> JList(codes)] : codes \in SeqsUpTo(Codes, MaxCodes)}

\* the caches of the process, as the loader operators take them
Caches == [graph |-> graph_cache, nodes |-> nodes_by_id, buildings |-> buildings_by_id,
           adjacency |-> adjacency_cache, raised |-> None, opens |-> 0, builds |-> 0]

\* the caches of a process that has just started (lines 23-26)
EmptyCaches == [graph |-> None, nodes |-> None, buildings |-> None, adjacency |-> None,
                raised |-> None, opens |-> 0, builds |-> 0]

\* mutant: a handler that finds the building index set clears it
SetCaches_ForgetIndex(c) ==
    /\ graph_cache' = c.graph
    /\ nodes_by_id' = c.nodes
    /\ buildings_by_id' = IF buildings_by_id = None THEN c.buildings ELSE None
    /\ adjacency_cache' = c.adjacency

SetCaches(c) ==
    /\ graph_cache' = c.graph
    /\ nodes_by_id' = c.nodes
    /\ buildings_by_id' = c.buildings
    /\ adjacency_cache' = c.adjacency

Init ==
    /\ graphFile \in GraphFiles
    /\ graph_cache = None
    /\ nodes_by_id = None
    /\ buildings_by_id = None
    /\ adjacency_cache = None
    /\ request = None
    /\ response = None
    /\ locals = None
    /\ workers = IdleWorkers /\ loads = 0 /\ builds = 0
    /\ start = None /\ goal = None /\ queue = <<>> /\ distances = EmptyDict
    /\ previous = EmptyDict /\ pops = 0 /\ pc = "idle" /\ result = None

\* a POST /planner/route arrives
Receive(body) ==
    /\ request = None
    /\ loads < MaxAttempts /\ builds < MaxAttempts
    /\ request' = Some(body)
    /\ UNCHANGED <<graphFile, loadVars, cacheVars, response, locals, searchVars>>

\* compute_route, lines 162-327
Handle ==
    /\ request # None /\ response = None
    /\ \E r \in {ComputeRoute(request[1], Caches, graphFile)} :
           /\ SetCaches(r.caches)
           /\ response' = Some(r.response)
           /\ locals' = Some(r.locals)
           /\ loads' = loads + r.caches.opens
           /\ builds' = builds + r.caches.builds
    /\ UNCHANGED <<graphFile, workers, request, searchVars>>

\* GET /planner/, lines 148-159: loads the graph; the rendered page is not kept
Planner ==
    /\ graph_cache = None
    /\ loads < MaxAttempts
    /\ \E c \in {LoadGraph(Caches, graphFile)} :
           /\ SetCaches(c)
           /\ loads' = loads + c.opens
    /\ UNCHANGED <<graphFile, workers, builds, request, response, locals, searchVars>>

\* the response is sent (line 327 and the 400 returns); the worker of a handler
\* that does not return is given up
Sent ==
    /\ response # None
    /\ request' = None
    /\ response' = None
    /\ locals' = None
    /\ UNCHANGED <<graphFile, loadVars, cacheVars, searchVars>>

Next == (\E body \in Bodies : Receive(body)) \/ Handle \/ Sent \/ Planner

Spec == Init /\ [][Next]_vars

----------------------------------------------------------------------------
(* The planner on any graph file and any request body *)

StdBuildings == << Building("X", <<1>>), Building("Y", <<4>>), Building("Z", <<3>>) >>

\* settings with some or all of the penalties absent
SparseSettings ==
    { [walking_speed_mps |-> 1],
      [walking_speed_mps |-> 1, penalties |-> [stairs_s |-> 14]] }

\* the line graph with one more edge, building or node, or other settings
MalformedFiles ==
    { [LineGraph EXCEPT !.edges = Append(@, [id |-> "e19", from |-> 1, to |-> UnknownNode])],
      [LineGraph EXCEPT !.edges = <<[id |-> "e19", from |-> 1, to |-> UnknownNode]>> \o @],
      [LineGraph EXCEPT !.edges = Append(@, [id |-> "e12n", from |-> 1, to |-> 2])],
      [LineGraph EXCEPT !.edges = Append(@, [id |-> "e12n", from |-> 1, to |-> 2,
                                             flags |-> [blocked |-> TRUE]])],
      [LineGraph EXCEPT !.edges = Append(@, EdgePool[9])],
      [LineGraph EXCEPT !.buildings = Append(@, [entranceNodeIds |-> <<1>>])],
      [LineGraph EXCEPT !.nodes = Append(@, [x |-> 5, y |-> 5])],
      [LineGraph EXCEPT !.settings = Settings(0)],
      [LineGraph EXCEPT !.settings = Settings(0 - 1)],
      [LineGraph EXCEPT !.settings = [penalties |-> [stairs_s |-> 14]]] }

\* a missing file, and a file that is not JSON
UnreadableFiles == { [io_error |-> "FileNotFoundError"], [io_error |-> "JSONDecodeError"] }

\* every choice of at most two edges of the pool, and the malformed and the
\* unreadable files
AnyGraphFiles ==
    { GraphFile(PickEdges(EdgePool, picked, 1), StdBuildings, ovr, speed) :
        picked \in {S \in SUBSET DOMAIN EdgePool : Cardinality(S) <= 2},
        ovr \in {<<>>, <<"e13">>}, speed \in Speeds }
    \cup
    { [GraphFile(PickEdges(EdgePool, picked, 1), StdBuildings, <<>>, 1)
          EXCEPT !.settings = s] :
        picked \in {S \in SUBSET DOMAIN EdgePool : Cardinality(S) <= 2},
        s \in SparseSettings }
    \cup MalformedFiles \cup UnreadableFiles

\* request bodies of every JSON type, with elements and languages of every type
AnyBodies ==
    { JNull, JNumber(0), JNumber(5), JString("abc"), JList(<<>>),
      JListOf(<<"1">>, <<"int">>), EmptyDict,
      [buildings |-> JNumber(3)],
      [buildings |-> [a |-> JNumber(1)]],
      [buildings |-> JList(<<"X">>)],
      [buildings |-> JList(<<"X", "Y">>)],
      [buildings |-> JList(<<"X", "Z", "Y">>)],
      [buildings |-> JListOf(<<"X", "1">>, <<"str", "int">>)],
      [buildings |-> JListOf(<<"null", "X">>, <<"NoneType", "str">>)],
      [buildings |-> JListOf(<<"[X]">>, <<"list">>)],
      [buildings |-> JList(<<"X">>), target_language |-> JNumber(5)],
      [buildings |-> JList(<<"X", "Y">>), target_language |-> JNumber(5)],
      [buildings |-> JList(<<"X", "Y">>), target_language |-> JNumber(0)],
      [buildings |-> JList(<<"X", "Y">>), target_language |-> JString("es-MX")],
      [buildings |-> JList(<<"ZZZ">>), target_language |-> JList(<<"en">>)],
      [target_language |-> JNumber(5)] }

InitAny ==
    /\ graphFile \in AnyGraphFiles
    /\ graph_cache = None
    /\ nodes_by_id = None
    /\ buildings_by_id = None
    /\ adjacency_cache = None
    /\ request = None
    /\ response = None
    /\ locals = None
    /\ workers = IdleWorkers /\ loads = 0 /\ builds = 0
    /\ start = None /\ goal = None /\ queue = <<>> /\ distances = EmptyDict
    /\ previous = EmptyDict /\ pops = 0 /\ pc = "idle" /\ result = None

NextAny == (\E body \in AnyBodies : Receive(body)) \/ Handle \/ Sent \/ Planner

SpecAny == InitAny /\ [][NextAny]_vars

----------------------------------------------------------------------------
(* Concurrent requests in _load_graph and _get_adjacency, one line at a time *)

LoadFiles == {LineGraph} \cup MalformedFiles \cup UnreadableFiles

InitLoad ==
    /\ graphFile \in LoadFiles
    /\ graph_cache = None
    /\ nodes_by_id = None
    /\ buildings_by_id = None
    /\ adjacency_cache = None
    /\ request = None
    /\ response = None
    /\ locals = None
    /\ workers = IdleWorkers /\ loads = 0 /\ builds = 0
    /\ start = None /\ goal = None /\ queue = <<>> /\ distances = EmptyDict
    /\ previous = EmptyDict /\ pops = 0 /\ pc = "idle" /\ result = None

At(t, where) == workers[t].pc = where

Goto(t, where) == workers' = [workers EXCEPT ![t].pc = where]

\* the bodies of the requests that run at the same time
LoadBodies == { [buildings |-> JList(<<"X", "Y">>)], [buildings |-> JList(<<"ZZZ", "X">>)] }

\* a request enters compute_route, which calls _load_graph (line 165)
Enter(t) ==
    /\ At(t, "idle")
    /\ \E body \in LoadBodies :
           workers' = [workers EXCEPT ![t] = [Worker("load_test", "route", None)
                                                EXCEPT !.body = Some(body)]]
    /\ UNCHANGED <<graphFile, cacheVars, request, response, locals, searchVars, loads, builds>>

\* line 31: if _graph_cache is None
LoadTest(t) ==
    /\ At(t, "load_test")
    /\ Goto(t, IF graph_cache = None THEN "load_read" ELSE "load_return")
    /\ UNCHANGED <<graphFile, cacheVars, request, response, locals, searchVars, loads, builds>>

\* lines 32-33: the file is read into _graph_cache
LoadRead(t) ==
    /\ At(t, "load_read")
    /\ loads' = loads + 1
    /\ IF Unreadable(graphFile) THEN Goto(t, "raised") /\ UNCHANGED graph_cache
       ELSE graph_cache' = Some(graphFile) /\ Goto(t, "load_nodes")
    /\ UNCHANGED <<graphFile, nodes_by_id, buildings_by_id, adjacency_cache,
                   request, response, locals, searchVars, builds>>

\* line 35
LoadNodes(t) ==
    /\ At(t, "load_nodes")
    /\ \E r \in {IndexById(Get(graph_cache[1], "nodes", <<>>), 1, EmptyDict)} :
           IF Raised(r) THEN Goto(t, "raised") /\ UNCHANGED nodes_by_id
           ELSE nodes_by_id' = r /\ Goto(t, "load_buildings")
    /\ UNCHANGED <<graphFile, graph_cache, buildings_by_id, adjacency_cache,
                   request, response, locals, searchVars, loads, builds>>

\* line 36
LoadBuildings(t) ==
    /\ At(t, "load_buildings")
    /\ \E r \in {IndexById(Get(graph_cache[1], "buildings", <<>>), 1, EmptyDict)} :
           IF Raised(r) THEN Goto(t, "raised") /\ UNCHANGED buildings_by_id
           ELSE buildings_by_id' = r /\ Goto(t, "load_return")
    /\ UNCHANGED <<graphFile, graph_cache, nodes_by_id, adjacency_cache,
                   request, response, locals, searchVars, loads, builds>>

\* line 37: return _graph_cache, to line 166 or to line 88
LoadReturn(t) ==
    /\ At(t, "load_return")
    /\ workers' = [workers EXCEPT ![t].pc = IF workers[t].ret = "route" THEN "adj_test"
                                            ELSE "adj_build",
                                   ![t].graph = graph_cache]
    /\ UNCHANGED <<graphFile, cacheVars, request, response, locals, searchVars, loads, builds>>

\* line 86: if _adjacency_cache is None, and the call of line 87
AdjTest(t) ==
    /\ At(t, "adj_test")
    /\ workers' = [workers EXCEPT ![t].pc = IF adjacency_cache = None THEN "load_test"
                                            ELSE "done",
                                   ![t].ret = IF adjacency_cache = None THEN "adj" ELSE @]
    /\ UNCHANGED <<graphFile, cacheVars, request, response, locals, searchVars, loads, builds>>

\* line 88: _adjacency_cache = _build_adjacency(graph)
AdjBuild(t) ==
    /\ At(t, "adj_build")
    /\ builds' = builds + 1
    /\ \E r \in {BuildAdjacency(workers[t].graph[1])} :
           IF Raised(r) THEN Goto(t, "raised") /\ UNCHANGED adjacency_cache
           ELSE adjacency_cache' = r /\ Goto(t, "done")
    /\ UNCHANGED <<graphFile, graph_cache, nodes_by_id, buildings_by_id,
                   request, response, locals, searchVars, loads>>

\* lines 168-327, on the graph and the adjacency that the thread's calls
\* returned and on the indices as they are
Route(t) ==
    /\ At(t, "done")
    /\ \E r \in {Respond(workers[t].body[1], [Caches EXCEPT !.graph = workers[t].graph])} :
           workers' = [workers EXCEPT ![t].pc = "answered",
                                      ![t].response = Some(r.response)]
    /\ UNCHANGED <<graphFile, cacheVars, request, response, locals, searchVars, loads, builds>>

NextLoad ==
    \E t \in Threads :
        \/ Enter(t) \/ LoadTest(t) \/ LoadRead(t) \/ LoadNodes(t) \/ LoadBuildings(t)
        \/ LoadReturn(t) \/ AdjTest(t) \/ AdjBuild(t) \/ Route(t)

SpecLoad == InitLoad /\ [][NextLoad]_vars

----------------------------------------------------------------------------
(* What a search is measured against: walks of the adjacency *)

Entries(adjacency, u) == SeqRange(Get(adjacency, u, <<>>))

NonNegative(adjacency) ==
    \A u \in DOMAIN adjacency : \A e \in Entries(adjacency, u) : e[2] >= 0

\* the nodes that a walk from the nodes of S ends at
RECURSIVE ReachFrom(_, _)
ReachFrom(adjacency, S) ==
    LET N == S \cup {e[1] : e \in UNION {Entries(adjacency, u) : u \in S}}
    IN  IF N = S THEN S ELSE ReachFrom(adjacency, N)

Reachable(adjacency, s, g) == g \in ReachFrom(adjacency, {s})

SetMin(S) == CHOOSE x \in S : \A y \in S : x <= y

\* the costs of the walks from u to g that repeat no node and avoid visited
RECURSIVE SimpleWalkCosts(_, _, _, _)
SimpleWalkCosts(adjacency, u, g, visited) ==
    IF u = g THEN {0}
    ELSE UNION { {e[2] + c : c \in SimpleWalkCosts(adjacency, e[1], g, visited \cup {e[1]})} :
                     e \in {f \in Entries(adjacency, u) : f[1] \notin visited} }

\* the least cost of a walk from s to g, for g reachable from s: with
\* non-negative weights a cheapest walk need not repeat a node
MinWalkCost(adjacency, s, g) == SetMin(SimpleWalkCosts(adjacency, s, g, {s}))

\* the sums of weights of the ways to walk along path from its i-th node on
RECURSIVE PathSums(_, _, _)
PathSums(adjacency, path, i) ==
    IF i >= Len(path) THEN {0}
    ELSE {e[2] + r : <<e, r>> \in
              {e \in Entries(adjacency, path[i]) : e[1] = path[i + 1]}
              \X PathSums(adjacency, path, i + 1)}

Returned == pc = "returned"

----------------------------------------------------------------------------
(* Claims about _dijkstra, under SpecSearch *)

\* C1: on a non-negative adjacency, when goal can be reached from start the
\* returned cost is the least cost of a walk from start to goal.
C1_MinimumCost ==
    (Returned /\ NonNegative(adjacency_cache[1]) /\ Reachable(adjacency_cache[1], start, goal))
        => result[1].cost = Some(MinWalkCost(adjacency_cache[1], start, goal))

\* a search that returned after leaving a costlier entry for goal behind:
\* goal was relaxed twice and reached over more than one edge
C1_Witness ==
    /\ Returned /\ NonNegative(adjacency_cache[1])
    /\ result[1].cost # None /\ Len(result[1].path) >= 3
    /\ \E i \in DOMAIN queue : queue[i][2] = goal /\ queue[i][1] > result[1].cost[1]

\* C2: a returned cost comes with a path from start to goal along entries of
\* the adjacency, without a repeated node, whose weights sum to the cost.
C2_PathOfCost ==
    (Returned /\ NonNegative(adjacency_cache[1]) /\ result[1].cost # None)
        => LET path == result[1].path
           IN  /\ path # <<>>
               /\ path[1] = start
               /\ path[Len(path)] = goal
               /\ \A i \in 1..(Len(path) - 1) :
                      \E e \in Entries(adjacency_cache[1], path[i]) : e[1] = path[i + 1]
               /\ \A i, j \in DOMAIN path : path[i] = path[j] => i = j
               /\ result[1].cost[1] \in PathSums(adjacency_cache[1], path, 1)

C2_Witness ==
    /\ Returned /\ NonNegative(adjacency_cache[1])
    /\ result[1].cost # None /\ Len(result[1].path) = 4 /\ result[1].cost[1] > 0

\* C3: a search from a node to itself returns cost 0 and the one-node path,
\* whatever the adjacency holds.
C3_SameNode ==
    (Returned /\ start = goal) => result[1] = [cost |-> Some(0), path |-> <<start>>, hang |-> FALSE]

\* the node has a zero-weight edge and a negative edge
C3_Witness ==
    /\ Returned /\ start = goal
    /\ \E e \in Entries(adjacency_cache[1], start) : e[2] = 0
    /\ \E e \in Entries(adjacency_cache[1], start) : e[2] < 0

\* the node is no key of the adjacency
C3_WitnessNoKey == Returned /\ start = goal /\ start \notin DOMAIN adjacency_cache[1]

----------------------------------------------------------------------------
(* What a response is measured against: the request and the graph file *)

\* a request has been answered and the answer is still held
Responded == request # None /\ response # None

\* the "buildings" list of the request
IsCodeList == "buildings" \in DOMAIN request[1] /\ request[1].buildings.type = "list"
ReqCodes == request[1].buildings.items

Answer == response[1]

KnownCodes == {graphFile.buildings[i].id : i \in DOMAIN graphFile.buildings}

\* the entrance nodes the file gives a building
EntranceNodes(code) ==
    UNION {SeqRange(Get(graphFile.buildings[i], "entranceNodeIds", <<>>)) :
              i \in {j \in DOMAIN graphFile.buildings : graphFile.buildings[j].id = code}}

\* some entrance of building a is joined to some entrance of building b
Joined(a, b) ==
    \E u \in EntranceNodes(a), v \in EntranceNodes(b) : Reachable(adjacency_cache[1], u, v)

\* a request of at least two codes, all known
RoutableRequest ==
    /\ Responded /\ IsCodeList
    /\ Len(ReqCodes) >= 2
    /\ \A i \in DOMAIN ReqCodes : ReqCodes[i] \in KnownCodes

Succeeded == Responded /\ Answer.status = 200

----------------------------------------------------------------------------
(* Claims about routes, under Spec *)

\* C5: a leg's time is the least search cost over the pairs of entrances of its
\* two buildings, its path is the path of a pair with that cost, and the line
\* graph gives X,Y the time 30 along 1,2,3,4.
C5_LegIsMinimum ==
    /\ Succeeded =>
         \A i \in DOMAIN Answer.legs :
           LET leg == Answer.legs[i]
               path == locals[1].node_paths[i]
               found == {Dijkstra(u, v, adjacency_cache[1]) :
                            u \in EntranceNodes(leg.from_building),
                            v \in EntranceNodes(leg.to_building)}
               costs == {f.cost[1] : f \in {f \in found : f.cost # None}}
           IN  /\ leg.from_building = ReqCodes[i] /\ leg.to_building = ReqCodes[i + 1]
               /\ costs # {} /\ leg.time_s = SetMin(costs)
               /\ \E f \in found : f.cost = Some(leg.time_s) /\ f.path = path
               /\ path[1] \in EntranceNodes(leg.from_building)
               /\ path[Len(path)] \in EntranceNodes(leg.to_building)
               /\ leg.time_s \in PathSums(adjacency_cache[1], path, 1)
    /\ (Responded /\ graphFile = LineGraph /\ request[1] = [buildings |-> JList(<<"X", "Y">>)])
         => /\ Answer.status = 200
            /\ Answer.total_time_s = 30
            /\ locals[1].node_paths = << <<1, 2, 3, 4>> >>

\* a leg whose time is below the cost between the first entrances of its buildings
C5_Witness ==
    /\ Succeeded
    /\ \E i \in DOMAIN Answer.legs :
         LET a == graphFile.buildings[CHOOSE j \in DOMAIN graphFile.buildings :
                     graphFile.buildings[j].id = Answer.legs[i].from_building].entranceNodeIds
             b == graphFile.buildings[CHOOSE j \in DOMAIN graphFile.buildings :
                     graphFile.buildings[j].id = Answer.legs[i].to_building].entranceNodeIds
             first == Dijkstra(a[1], b[1], adjacency_cache[1])
         IN  first.cost # None /\ Answer.legs[i].time_s < first.cost[1]

C5_WitnessLine ==
    Succeeded /\ graphFile = LineGraph /\ request[1] = [buildings |-> JList(<<"X", "Y">>)]

\* C6: the first failing check decides the response: no list or an empty one,
\* then a code that is no building, then fewer than two codes.
C6_ValidationOrder ==
    Responded =>
        IF ~IsCodeList \/ ReqCodes = <<>>
        THEN Answer = [status |-> 400, error |-> InvalidRequest]
        ELSE IF \E i \in DOMAIN ReqCodes : ReqCodes[i] \notin KnownCodes
        THEN Answer.status = 400 /\ Answer.error = UnknownBuilding
        ELSE IF Len(ReqCodes) < 2
        THEN Answer = [status |-> 400, error |-> InsufficientEndpoints]
        ELSE Answer.status = 400 => Answer.error = NoPathFound

\* a list of one code that is no building: the second and the third check both fail
C6_Witness ==
    /\ Responded /\ IsCodeList /\ Len(ReqCodes) = 1 /\ ReqCodes[1] \notin KnownCodes
    /\ Answer.error = UnknownBuilding

C6_WitnessOneKnown ==
    /\ Responded /\ IsCodeList /\ Len(ReqCodes) = 1 /\ ReqCodes[1] \in KnownCodes
    /\ Answer.error = InsufficientEndpoints

\* C7: with a code that is no building in the list, the 400 names the absent
\* codes, each occurrence in request order, and nothing is routed.
C7_NamesAbsentCodes ==
    (Responded /\ IsCodeList /\ \E i \in DOMAIN ReqCodes : ReqCodes[i] \notin KnownCodes)
        => LET Absent(c) == c \notin KnownCodes
           IN  /\ Answer = [status |-> 400, error |-> UnknownBuilding,
                            codes |-> SelectSeq(ReqCodes, Absent)]
               /\ locals[1] = NoLocals

\* an absent code twice, around a building with a route to itself
C7_Witness ==
    /\ Responded /\ IsCodeList /\ Len(ReqCodes) = 3
    /\ ReqCodes[1] \notin KnownCodes /\ ReqCodes[3] \notin KnownCodes
    /\ ReqCodes[2] \in KnownCodes /\ Joined(ReqCodes[2], ReqCodes[2])
    /\ Answer.status = 400

C9_TotalIsSum ==
    Succeeded =>
        /\ Answer.total_time_s =
             SumSeq([i \in DOMAIN Answer.legs |-> Answer.legs[i].time_s], 1)
        /\ Len(ReqCodes) = 3 =>
             LET ab == Respond([buildings |-> JList(<<ReqCodes[1], ReqCodes[2]>>)], Caches).response
                 bc == Respond([buildings |-> JList(<<ReqCodes[2], ReqCodes[3]>>)], Caches).response
             IN  /\ ab.status = 200 /\ bc.status = 200
                 /\ Answer.total_time_s = ab.total_time_s + bc.total_time_s

\* three different buildings, both legs of non-zero time
C9_Witness ==
    /\ Succeeded /\ Len(ReqCodes) = 3
    /\ ReqCodes[1] # ReqCodes[2] /\ ReqCodes[2] # ReqCodes[3] /\ ReqCodes[1] # ReqCodes[3]
    /\ Answer.legs[1].time_s > 0 /\ Answer.legs[2].time_s > 0

\* the graph file with its i-th edge blocked, by its flag or by the block list
BlockEdge(file, i, how) ==
    IF how = "flag"
    THEN [file EXCEPT !.edges[i] =
            [k \in (DOMAIN @) \cup {"flags"} |->
                IF k = "flags"
                THEN [f \in (DOMAIN Get(@, "flags", EmptyDict)) \cup {"blocked"} |->
                         IF f = "blocked" THEN TRUE ELSE @["flags"][f]]
                ELSE @[k]]]
    ELSE [file EXCEPT !.overrides.blockedEdgeIds = Append(@, file.edges[i].id)]

Blocked(file, edge) ==
    \/ FlagSet(Get(edge, "flags", EmptyDict), "blocked")
    \/ edge.id \in SeqRange(file.overrides.blockedEdgeIds)

\* every two consecutive nodes of the path are joined by an edge of the file
\* that is not blocked
AvoidsBlocked(file, path) ==
    \A k \in 1..(Len(path) - 1) :
        \E j \in DOMAIN file.edges :
            /\ ~Blocked(file, file.edges[j])
            /\ {file.edges[j].from, file.edges[j].to} = {path[k], path[k + 1]}

\* the request of the current state answered by a freshly started process that
\* reads the file with one more edge blocked: it does not return, or finds no
\* path, or routes around the blocked edges at a total that is not lower
BlockingNeverCheaper ==
    \A i \in DOMAIN graphFile.edges : \A how \in {"flag", "override"} :
        ~Blocked(graphFile, graphFile.edges[i]) =>
            \E after \in {ComputeRoute(request[1], EmptyCaches,
                                       BlockEdge(graphFile, i, how))} :
                \/ after.response.status = 0
                \/ after.response.status = 400 /\ after.response.error = NoPathFound
                \/ /\ after.response.status = 200
                   /\ after.response.total_time_s >= Answer.total_time_s
                   /\ \A l \in DOMAIN after.locals.node_paths :
                          AvoidsBlocked(BlockEdge(graphFile, i, how), after.locals.node_paths[l])

\* C10: blocking an edge removes it from the paths computed afterwards and never
\* makes a route cheaper: its cost stays, grows, or no path is left.
C10_BlockingNeverCheaper == Succeeded => BlockingNeverCheaper

\* the same on the graph files whose traversal costs are all non-negative
C10_OnNonNegativeCosts ==
    (Succeeded /\ NonNegative(adjacency_cache[1])) => BlockingNeverCheaper

----------------------------------------------------------------------------
(* Claims about edge costs and the adjacency, under SpecAny *)

\* the adjacency has been built from the graph file
Built == adjacency_cache # None

NodeIds(file) == {file.nodes[i].id : i \in {j \in DOMAIN file.nodes : "id" \in DOMAIN file.nodes[j]}}

KnownEnds(file, edge) == edge.from \in NodeIds(file) /\ edge.to \in NodeIds(file)

\* the edges of the file that are not blocked and join nodes of the file
Traversable(file) ==
    {i \in DOMAIN file.edges : ~Blocked(file, file.edges[i]) /\ KnownEnds(file, file.edges[i])}

\* the graph file without its blocked edges and without its block list
WithoutBlocked(file) ==
    [file EXCEPT !.edges = SelectSeq(@, LAMBDA e : ~Blocked(file, e)),
                 !.overrides = [blockedEdgeIds |-> <<>>]]

\* C11: an edge blocked by its flag or by the block list leaves no entry in the
\* adjacency, in either direction: each node has one entry per end of a
\* traversable edge at it, and the adjacency is that of the file without its
\* blocked edges.
C11_BlockedEdgesAbsent ==
    Built =>
        /\ \A u \in DOMAIN adjacency_cache[1] :
              Len(adjacency_cache[1][u]) =
                Cardinality({<<i, end>> \in Traversable(graphFile) \X {"from", "to"} :
                                graphFile.edges[i][end] = u})
        /\ adjacency_cache = BuildAdjacency(WithoutBlocked(graphFile))

\* an edge blocked by its flag beside a traversable edge
C11_Witness ==
    /\ Built
    /\ \E i \in DOMAIN graphFile.edges :
          /\ FlagSet(Get(graphFile.edges[i], "flags", EmptyDict), "blocked")
          /\ KnownEnds(graphFile, graphFile.edges[i])
    /\ Traversable(graphFile) # {}

\* an edge blocked by the block list beside a traversable edge
C11_WitnessOverride ==
    /\ Built
    /\ \E i \in DOMAIN graphFile.edges :
          /\ graphFile.edges[i].id \in SeqRange(graphFile.overrides.blockedEdgeIds)
          /\ KnownEnds(graphFile, graphFile.edges[i])
    /\ Traversable(graphFile) # {}

\* the value _edge_travel_time gives the i-th edge of the file
CostOf(file, i) ==
    EdgeTravelTime(file.edges[i], Get(file, "settings", EmptyDict),
                   SeqRange(file.overrides.blockedEdgeIds))

\* C12: every value other than None that _edge_travel_time gives an edge of an
\* accepted graph file is at least 0, and so is every weight of the adjacency.
C12_CostNonNegative ==
    Built =>
        /\ \A i \in DOMAIN graphFile.edges :
              CostOf(graphFile, i) # None => CostOf(graphFile, i)[1] >= 0
        /\ NonNegative(adjacency_cache[1])

PenaltyKey == [stairs |-> "stairs_s", steep |-> "steep_s", covered |-> "covered_s"]

RECURSIVE SumOver(_, _)
SumOver(S, f) ==
    IF S = {} THEN 0
    ELSE LET x == CHOOSE y \in S : TRUE IN f[x] + SumOver(S \ {x}, f)

\* the flags among stairs, steep and covered that the edge has set
SetFlags(edge) ==
    {name \in DOMAIN PenaltyKey : "flags" \in DOMAIN edge /\ name \in DOMAIN edge.flags
                                    /\ edge.flags[name]}

\* the number that, multiplied by b, gives a
ExactQuotient(a, b) == CHOOSE q \in (0 - a)..a : q * b = a

\* length over speed, plus the edge's own penalty, plus the settings' penalty of
\* each set flag, each taken as 0 when absent
ExpectedCost(file, edge) ==
    ExactQuotient(edge.length_m, file.settings.walking_speed_mps)
    + (IF "penalty_s" \in DOMAIN edge THEN edge.penalty_s ELSE 0)
    + SumOver(SetFlags(edge),
              [name \in DOMAIN PenaltyKey |->
                 IF "penalties" \in DOMAIN file.settings
                    /\ PenaltyKey[name] \in DOMAIN file.settings.penalties
                 THEN file.settings.penalties[PenaltyKey[name]] ELSE 0])

\* C13: an edge that is not blocked costs its length over the walking speed,
\* plus its penalty_s, plus the settings' penalty of each of its flags stairs,
\* steep and covered that is set, once each; absent values count 0.  The
\* adjacency holds that cost in both directions.
C13_CostFormula ==
    Built =>
        \A i \in DOMAIN graphFile.edges :
            LET edge == graphFile.edges[i]
            IN  ~Blocked(graphFile, edge) =>
                  /\ CostOf(graphFile, i) = Some(ExpectedCost(graphFile, edge))
                  /\ KnownEnds(graphFile, edge) =>
                        /\ <<edge.to, ExpectedCost(graphFile, edge)>>
                              \in Entries(adjacency_cache[1], edge.from)
                        /\ <<edge.from, ExpectedCost(graphFile, edge)>>
                              \in Entries(adjacency_cache[1], edge.to)

\* an edge with a penalty of its own and all three flags set
C13_Witness ==
    /\ Built
    /\ \E i \in Traversable(graphFile) :
          /\ SetFlags(graphFile.edges[i]) = {"stairs", "steep", "covered"}
          /\ "penalty_s" \in DOMAIN graphFile.edges[i]
          /\ "penalties" \in DOMAIN graphFile.settings

\* an edge with a flag that is present and false
C13_WitnessFalseFlag ==
    /\ Built
    /\ \E i \in Traversable(graphFile) :
          /\ "flags" \in DOMAIN graphFile.edges[i]
          /\ "stairs" \in DOMAIN graphFile.edges[i].flags
          /\ ~graphFile.edges[i].flags.stairs

\* an edge with a set flag whose penalty the settings do not have
C13_WitnessAbsentPenalty ==
    /\ Built
    /\ \E i \in Traversable(graphFile) :
          /\ "steep" \in SetFlags(graphFile.edges[i])
          /\ "penalties" \in DOMAIN graphFile.settings
          /\ "steep_s" \notin DOMAIN graphFile.settings.penalties

----------------------------------------------------------------------------
(* Claims about stitched routes, under Spec *)

\* no two neighbours of the sequence are equal
NoAdjacentRepeat(s) == \A i \in 1..(Len(s) - 1) : s[i] # s[i + 1]

RECURSIVE Flatten(_, _)
Flatten(seqs, i) == IF i > Len(seqs) THEN <<>> ELSE seqs[i] \o Flatten(seqs, i + 1)

\* C14: after any number of found legs, combined_path holds no node twice in a
\* row: a leg that starts at the path's last node is appended without it.
C14_NoAdjacentRepeat ==
    Responded => NoAdjacentRepeat(locals[1].combined_path)

\* two legs of more than one node that meet at a node, which is kept once
C14_Witness ==
    /\ Succeeded /\ Len(Answer.legs) = 2
    /\ Len(locals[1].node_paths[1]) >= 2 /\ Len(locals[1].node_paths[2]) >= 2
    /\ locals[1].node_paths[1][Len(locals[1].node_paths[1])] = locals[1].node_paths[2][1]
    /\ Len(locals[1].combined_path) = Len(Flatten(locals[1].node_paths, 1)) - 1

\* a leg from a building to itself after a leg that ended there
C14_WitnessSameBuilding ==
    /\ Succeeded /\ Len(Answer.legs) = 2
    /\ Len(locals[1].node_paths[1]) >= 2 /\ Len(locals[1].node_paths[2]) = 1
    /\ NoAdjacentRepeat(locals[1].combined_path)

\* the polylines of the response's legs, in leg order, as one sequence
CombinedPolyline == Flatten([i \in DOMAIN Answer.legs |-> Answer.legs[i].polyline], 1)

\* C15: the polylines of the legs of a successful response, taken in leg order,
\* hold no coordinate twice in a row.
C15_PolylineNoRepeat ==
    Succeeded => NoAdjacentRepeat(CombinedPolyline)

----------------------------------------------------------------------------
(* Claims about the caches under concurrent requests, under SpecLoad *)

\* the thread is between the test of a cache and the end of its population
InLoad(t) == workers[t].pc \in {"load_read", "load_nodes", "load_buildings"}
InBuild(t) == workers[t].pc = "adj_build"

\* C16: with requests running at the same time on empty caches, the graph file
\* is read at most once and _build_adjacency is called at most once, and no two
\* threads are populating the same cache at once.
C16_PopulatedOnce ==
    /\ loads <= 1
    /\ builds <= 1
    /\ \A t1, t2 \in Threads : (InLoad(t1) /\ InLoad(t2)) => t1 = t2
    /\ \A t1, t2 \in Threads : (InBuild(t1) /\ InBuild(t2)) => t1 = t2

----------------------------------------------------------------------------
(* Claims about requests, under SpecAny and Spec *)

\* C17: whatever the request body holds, compute_route returns a success
\* payload or a 400 with an error field; no exception leaves it.
C17_NeverRaises ==
    (Responded /\ graphFile \notin MalformedFiles \cup UnreadableFiles) =>
        /\ Answer.status # 500
        /\ Answer.status = 400 => "error" \in DOMAIN Answer

\* the building has no entrance node: the list is empty or missing
NoEntrance(code) == EntranceNodes(code) = {}

\* C18: when a known building without entrance nodes is an end of a leg of the
\* request, the response is NoPathFound, for the first leg with such a building
\* or for an earlier one, and no leg is made for that building.
C18_NoEntranceNoRoute ==
    (RoutableRequest /\ Answer.status # 0
       /\ \E i \in DOMAIN ReqCodes : NoEntrance(ReqCodes[i]))
        => LET first == CHOOSE i \in 1..(Len(ReqCodes) - 1) :
                            /\ NoEntrance(ReqCodes[i]) \/ NoEntrance(ReqCodes[i + 1])
                            /\ \A j \in 1..(i - 1) :
                                   ~NoEntrance(ReqCodes[j]) /\ ~NoEntrance(ReqCodes[j + 1])
           IN  /\ Answer.status = 400 /\ Answer.error = NoPathFound
               /\ "legs" \notin DOMAIN Answer
               /\ \E k \in 1..first :
                      /\ Answer.from_code = ReqCodes[k] /\ Answer.to_code = ReqCodes[k + 1]
                      /\ Len(locals[1].node_paths) = k - 1
               /\ \A k \in DOMAIN locals[1].node_paths :
                      ~NoEntrance(ReqCodes[k]) /\ ~NoEntrance(ReqCodes[k + 1])

\* a leg from a building with an empty entrance list to itself
C18_Witness ==
    /\ RoutableRequest /\ Len(ReqCodes) = 2 /\ ReqCodes[1] = ReqCodes[2]
    /\ NoEntrance(ReqCodes[1])
    /\ \E i \in DOMAIN graphFile.buildings :
          /\ graphFile.buildings[i].id = ReqCodes[1]
          /\ "entranceNodeIds" \in DOMAIN graphFile.buildings[i]
    /\ Answer.status = 400

\* a building without the entranceNodeIds key ends a second leg, after a found leg
C18_WitnessMissingKey ==
    /\ RoutableRequest /\ Len(ReqCodes) = 3
    /\ \E i \in DOMAIN graphFile.buildings :
          /\ graphFile.buildings[i].id = ReqCodes[3]
          /\ "entranceNodeIds" \notin DOMAIN graphFile.buildings[i]
    /\ Len(locals[1].node_paths) = 1
    /\ Answer.status = 400

----------------------------------------------------------------------------
(* Claims about malformed graph files, under SpecAny *)

HasId(item) == "id" \in DOMAIN item

\* the settings give a walking speed that can be divided by
SpeedGiven(file) ==
    "walking_speed_mps" \in DOMAIN file.settings /\ file.settings.walking_speed_mps # 0

\* the edges of the file with an end that is no node of the file
ToUnknown(file) == {i \in DOMAIN file.edges : ~KnownEnds(file, file.edges[i])}

\* nothing is wrong with the file but edges to unknown nodes, whatever else
\* those edges hold or lack
OnlyUnknownEnds(file) ==
    /\ \A i \in DOMAIN file.nodes : HasId(file.nodes[i])
    /\ \A i \in DOMAIN file.buildings : HasId(file.buildings[i])
    /\ SpeedGiven(file)
    /\ \A i \in (DOMAIN file.edges) \ ToUnknown(file) : "length_m" \in DOMAIN file.edges[i]

\* the adjacency has the nodes of the file as keys and one entry per end of a
\* traversable edge
AdjacencyOfTraversable ==
    /\ DOMAIN adjacency_cache[1] = NodeIds(graphFile)
    /\ \A u \in DOMAIN adjacency_cache[1] :
          Len(adjacency_cache[1][u]) =
            Cardinality({<<i, end>> \in Traversable(graphFile) \X {"from", "to"} :
                            graphFile.edges[i][end] = u})

\* C19: an edge with an end that is no node of the file is left out of the
\* adjacency and never ends the construction, whatever its other fields are:
\* the first request builds the adjacency, without entry or key for it.
C19_UnknownEndsDropped ==
    (Responded /\ ~Unreadable(graphFile)
       /\ ToUnknown(graphFile) # {} /\ OnlyUnknownEnds(graphFile))
        => Built /\ AdjacencyOfTraversable

\* the same for the edges to unknown nodes that have a length
C19_WithLength ==
    (Responded /\ ~Unreadable(graphFile)
       /\ ToUnknown(graphFile) # {} /\ OnlyUnknownEnds(graphFile)
       /\ \A i \in ToUnknown(graphFile) : "length_m" \in DOMAIN graphFile.edges[i])
        => Built /\ AdjacencyOfTraversable

\* an edge without length, a building without id or a node without id
HasMalformedItem(file) ==
    \/ \E i \in DOMAIN file.edges : "length_m" \notin DOMAIN file.edges[i]
    \/ \E i \in DOMAIN file.buildings : ~HasId(file.buildings[i])
    \/ \E i \in DOMAIN file.nodes : ~HasId(file.nodes[i])

\* the file is the line graph with items added to it
ExtendsLineGraph(file) ==
    /\ file.settings = LineGraph.settings
    /\ SubSeq(file.nodes, 1, Len(LineGraph.nodes)) = LineGraph.nodes
    /\ SubSeq(file.buildings, 1, Len(LineGraph.buildings)) = LineGraph.buildings
    /\ \A i \in DOMAIN LineGraph.edges : \E j \in DOMAIN file.edges : file.edges[j] = LineGraph.edges[i]

\* C20: a malformed edge, building or node in the file is dropped at load and
\* the rest stays routable: on the line graph with such an item added, every
\* request X,Y, the first and the later ones, is answered by the route of 30 s.
C20_MalformedDropped ==
    (Responded /\ ~Unreadable(graphFile)
       /\ HasMalformedItem(graphFile) /\ ExtendsLineGraph(graphFile)
       /\ request[1] = [buildings |-> JList(<<"X", "Y">>)])
        => /\ Answer.status = 200
           /\ Answer.total_time_s = 30
           /\ Built

----------------------------------------------------------------------------
(* Claims about the loader and its caches *)

\* C21: a load that fails on an I/O or parse error is not retried: after one
\* failed call of _load_graph no later request opens the file again, so an
\* unreadable file is opened at most once.
C21_FailedLoadNotRetried == Unreadable(graphFile) => loads <= 1

\* the settings give a walking speed that is zero or negative
SpeedNotPositive(file) ==
    /\ ~Unreadable(file)
    /\ "walking_speed_mps" \in DOMAIN file.settings
    /\ file.settings.walking_speed_mps <= 0

\* C22: a walking speed that is not positive is rejected at load: _load_graph
\* fails, the graph is not cached, and no adjacency is built from that speed.
C22_SpeedRejectedAtLoad ==
    SpeedNotPositive(graphFile) => graph_cache = None /\ adjacency_cache = None

\* the adjacency was built from a negative speed, with negative costs
C22_NegativeAdjacency ==
    ~(SpeedNotPositive(graphFile) /\ Built /\ ~NonNegative(adjacency_cache[1]))

\* a call of _load_graph has run to its return: the graph and both indices are set
LoadSucceeded == graph_cache # None /\ nodes_by_id # None /\ buildings_by_id # None

\* C23: the load is idempotent: once a call of _load_graph has succeeded, a
\* further call returns the caches as they are without opening the file, and
\* no request changes the cached graph or either index or reads the file again.
C23_LoadIdempotent ==
    /\ [](LoadSucceeded => LoadGraph(Caches, graphFile) = Caches)
    /\ [][LoadSucceeded => /\ graph_cache' = graph_cache
                           /\ nodes_by_id' = nodes_by_id
                           /\ buildings_by_id' = buildings_by_id
                           /\ loads' = loads]_vars

\* a request was answered after the calls of lines 165 and 87, with one read
C23_Witness ==
    Responded /\ LoadSucceeded /\ Built /\ loads = 1 /\ graph_cache = Some(graphFile)

----------------------------------------------------------------------------
(* Claims about the order of the edge list and about the search, under
   SpecSearch *)

\* the edge lists with the edges of the file in every order
EdgeOrders(file) ==
    { [i \in DOMAIN file.edges |-> file.edges[f[i]]] : f \in Permutations(DOMAIN file.edges) }

\* the adjacency built from the file with its edges in the given order
AdjacencyOfOrder(file, edges) == BuildAdjacency([file EXCEPT !.edges = edges])[1]

\* C24: with costs that are not negative, the order of the edge list does not
\* change the result of a search: for every order of the edges and every pair
\* of nodes, the search over the adjacency built from that order returns the
\* cost, or the absence of a path, that the search over the file's order returns.
C24_EdgeOrderIrrelevant ==
    (Returned /\ NonNegative(adjacency_cache[1])) =>
        \A edges \in EdgeOrders(graphFile) :
            Dijkstra(start, goal, AdjacencyOfOrder(graphFile, edges)).cost = result[1].cost

\* a search that found a path of two edges or more over a file of three edges,
\* two of them between the same nodes, one order of which gives another adjacency
C24_Witness ==
    /\ Returned /\ NonNegative(adjacency_cache[1])
    /\ Len(graphFile.edges) = 3
    /\ result[1].cost # None /\ Len(result[1].path) >= 3
    /\ \E i, j \in DOMAIN graphFile.edges :
          /\ i # j
          /\ {graphFile.edges[i].from, graphFile.edges[i].to}
               = {graphFile.edges[j].from, graphFile.edges[j].to}
    /\ \E edges \in EdgeOrders(graphFile) :
          AdjacencyOfOrder(graphFile, edges) # adjacency_cache[1]

----------------------------------------------------------------------------
(* Claims about the legs of a response, under Spec *)

\* the leg's polyline has one point per node of its path, in path order, each
\* the node's coordinates, and its label is the mean of the points
PointPerNode(leg, path) ==
    /\ leg.polyline # <<>>
    /\ Len(leg.polyline) = Len(path)
    /\ \A k \in DOMAIN path :
          \E j \in DOMAIN graphFile.nodes :
              /\ graphFile.nodes[j].id = path[k]
              /\ leg.polyline[k] = [x |-> graphFile.nodes[j].x, y |-> graphFile.nodes[j].y]
    /\ leg.label_position.x.n = Len(path)
    /\ leg.label_position.x.sum = SumSeq([k \in DOMAIN leg.polyline |-> leg.polyline[k].x], 1)
    /\ leg.label_position.y.n = Len(path)
    /\ leg.label_position.y.sum = SumSeq([k \in DOMAIN leg.polyline |-> leg.polyline[k].y], 1)

\* C25: every leg of a successful response has a polyline of exactly one point
\* per node of its path, in order, not empty, and a label at the mean of the
\* points, also when a building lists an entrance that is no node of the graph.
C25_PointPerNode ==
    Succeeded =>
        \A i \in DOMAIN Answer.legs : PointPerNode(Answer.legs[i], locals[1].node_paths[i])

\* the same for the legs whose path runs over nodes of the graph only
C25_OverKnownNodes ==
    Succeeded =>
        \A i \in DOMAIN Answer.legs :
            (\A k \in DOMAIN locals[1].node_paths[i] :
                 locals[1].node_paths[i][k] \in NodeIds(graphFile))
              => PointPerNode(Answer.legs[i], locals[1].node_paths[i])

----------------------------------------------------------------------------
(* Claims about requests that meet a load in progress, under SpecLoad *)

\* the thread's request was answered
Answered(t) == workers[t].pc = "answered"

\* C26: on a well-formed file, in every interleaving, a request to which
\* _load_graph returned the graph finds both indices populated, and a request
\* for buildings of the file is answered with its route, never with unknown
\* codes or a fault because another request's load is in progress.
C26_IndicesWithGraph ==
    graphFile = LineGraph =>
        \A t \in Threads :
            /\ workers[t].graph # None => nodes_by_id # None /\ buildings_by_id # None
            /\ (Answered(t) /\ workers[t].body[1] = [buildings |-> JList(<<"X", "Y">>)])
                  => workers[t].response[1].status = 200

\* the first half alone
C26_GraphReturnedEarly ==
    graphFile = LineGraph =>
        \A t \in Threads :
            workers[t].graph # None => nodes_by_id # None /\ buildings_by_id # None

\* the second half alone
C26_KnownCodesAnswered ==
    graphFile = LineGraph =>
        \A t \in Threads :
            (Answered(t) /\ workers[t].body[1] = [buildings |-> JList(<<"X", "Y">>)])
              => workers[t].response[1].status = 200

----------------------------------------------------------------------------
(* Claims about the shape of the adjacency, under SpecAny *)

\* how often the entry stands in the list
Count(list, entry) == Cardinality({k \in DOMAIN list : list[k] = entry})

\* the weights of the adjacency
Weights(adjacency) ==
    UNION {{adjacency[u][k][2] : k \in DOMAIN adjacency[u]} : u \in DOMAIN adjacency}

\* the traversable edges of the file from u to v at cost w
EdgesAt(file, u, v, w) ==
    {i \in Traversable(file) :
        file.edges[i].from = u /\ file.edges[i].to = v /\ CostOf(file, i) = Some(w)}

\* C27: the adjacency is keyed by exactly the node ids of the graph and is
\* symmetric: for all nodes u, v and every weight w, adjacency[u] holds (v, w)
\* as often as adjacency[v] holds (u, w), once per end of each traversable
\* edge between u and v of cost w; a node at no traversable edge has the empty list.
C27_SymmetricAdjacency ==
    Built =>
        LET adjacency == adjacency_cache[1]
        IN  /\ DOMAIN adjacency = NodeIds(graphFile)
            /\ \A u, v \in DOMAIN adjacency : \A w \in Weights(adjacency) :
                  /\ Count(adjacency[u], <<v, w>>) = Count(adjacency[v], <<u, w>>)
                  /\ Count(adjacency[u], <<v, w>>) =
                        Cardinality(EdgesAt(graphFile, u, v, w))
                        + Cardinality(EdgesAt(graphFile, v, u, w))
            /\ \A u \in DOMAIN adjacency :
                  (\A i \in Traversable(graphFile) :
                       graphFile.edges[i].from # u /\ graphFile.edges[i].to # u)
                    => adjacency[u] = <<>>

\* two traversable edges between the same two nodes, in opposite directions,
\* and a node at no edge
C27_Witness ==
    /\ Built
    /\ \E i, j \in Traversable(graphFile) :
          /\ graphFile.edges[i].from = graphFile.edges[j].to
          /\ graphFile.edges[i].to = graphFile.edges[j].from
          /\ graphFile.edges[i].from # graphFile.edges[i].to
    /\ \E u \in DOMAIN adjacency_cache[1] : adjacency_cache[1][u] = <<>>

\* a self-loop, which adds two entries to the list of its node
C27_WitnessSelfLoop ==
    /\ Built
    /\ \E i \in Traversable(graphFile) : graphFile.edges[i].from = graphFile.edges[i].to
    /\ \E u \in DOMAIN adjacency_cache[1] : Count(adjacency_cache[1][u], <<u, 0>>) = 2

----------------------------------------------------------------------------
(* Claims about the course of a search, under SpecSearch and SpecSearchFair *)

\* the node at which the chain of predecessors from node ends (<<n>>), or None
\* when it has not ended after fuel steps
RECURSIVE ChainEnd(_, _, _)
ChainEnd(prev, node, fuel) ==
    IF prev[node] = None THEN Some(node)
    ELSE IF fuel = 0 THEN None
    ELSE ChainEnd(prev, prev[node][1], fuel - 1)

\* C28: over an adjacency without negative weights the search returns; all
\* along, the predecessor of start is None and the chain of predecessors from
\* every recorded node, goal included, reaches start in fewer steps than there
\* are recorded nodes; the path returned has at most one node per recorded node.
C28_Terminates ==
    /\ NonNegative(adjacency_cache[1]) ~> Returned
    /\ [](NonNegative(adjacency_cache[1]) =>
            /\ previous[start] = None
            /\ \A n \in DOMAIN previous :
                  ChainEnd(previous, n, Cardinality(DOMAIN previous) - 1) = Some(start)
            /\ (Returned /\ result[1].cost # None) =>
                  /\ Len(result[1].path) <= Cardinality(DOMAIN previous)
                  /\ result[1].path[1] = start)

\* a search from a node with a zero-weight self-loop, which returned a path
\* of three nodes or more that runs over a zero-weight edge
C28_Witness ==
    /\ Returned /\ NonNegative(adjacency_cache[1])
    /\ <<start, 0>> \in Entries(adjacency_cache[1], start)
    /\ result[1].cost # None /\ Len(result[1].path) >= 3
    /\ \E k \in 1..(Len(result[1].path) - 1) :
          <<result[1].path[k + 1], 0>> \in Entries(adjacency_cache[1], result[1].path[k])

\* the entry that the next pass of the loop pops
NextPopped == queue[HeapMinIndex(queue)]

\* the next pass pops an entry for a node other than goal with a distance
\* above the one recorded for the node
StalePop ==
    /\ pc = "loop" /\ queue # <<>>
    /\ NextPopped[2] # goal
    /\ NextPopped[2] \in DOMAIN distances
    /\ NextPopped[1] > distances[NextPopped[2]]

\* C29: a pass of the loop that pops a stale entry for a node other than goal
\* only removes that entry: distances and previous stay as they are and
\* nothing is pushed; and no step of a search raises a recorded distance.
C29_LazyDeletion ==
    [][/\ StalePop => /\ distances' = distances
                      /\ previous' = previous
                      /\ queue' = RemoveAt(queue, HeapMinIndex(queue))
                      /\ pc' = "loop"
       /\ \A n \in DOMAIN distances :
             n \in DOMAIN distances' /\ distances'[n] <= distances[n]]_vars

\* a search over weights that are not negative that emptied its queue in more
\* passes than one per recorded node and the last: a stale entry was popped
C29_Witness ==
    /\ Returned /\ NonNegative(adjacency_cache[1])
    /\ queue = <<>> /\ result[1].cost = None
    /\ pops > Cardinality(DOMAIN distances) + 1

\* a stale entry is the next to be popped
C29_WitnessBefore == StalePop /\ NonNegative(adjacency_cache[1])

----------------------------------------------------------------------------
(* Claims about the caches across requests, under SpecAny *)

\* the graph, both indices and the adjacency are set
Populated == LoadSucceeded /\ Built

\* C30: once the caches are populated, no request, answered with a route or
\* with an error, changes the graph, the adjacency or an index, and the answer
\* to a body is the one a process that has served no request gives to it.
C30_CachesFrozen ==
    /\ [][Populated => cacheVars' = cacheVars]_vars
    /\ []((Responded /\ Populated) =>
            Answer = ComputeRoute(request[1], EmptyCaches, graphFile).response)

\* a request answered with NoPathFound on populated caches
C30_Witness ==
    /\ Responded /\ Populated
    /\ Answer.status = 400 /\ Answer.error = NoPathFound

\* a request answered with a route on populated caches
C30_WitnessRoute == Responded /\ Populated /\ Answer.status = 200

\* a request arrives after an earlier one has populated the caches
C30_WitnessLater == request # None /\ response = None /\ Populated

====
